---- MODULE Spec2Model ----
(***************************************************************************)
(* A model of the argo registries: TypeRegistry, SyncTypeRegistry,         *)
(* PropertyRegistry and SyncPropertyRegistry.                              *)
(*                                                                         *)
(* A Go string is a sequence of one-character strings, so that             *)
(* strings.Trim and strings.Join are computed as the library computes      *)
(* them.  A JSON value is a record [k, s, f]: its kind, the text of a      *)
(* scalar, and the fields of an object.  An error is the chain of its      *)
(* causes, outermost first; the nil error is the empty chain.              *)
(***************************************************************************)
EXTENDS Integers, Sequences, FiniteSets, TLC

VARIABLES
    kind,       \* which of the four registry types the object is
    Typetags,   \* field Typetags (tag-mode registries)
    registry,   \* field registry: [isNil, m], m maps a discriminant to a type
    types,      \* field types: [isNil, s], s the list of discriminants
    added,      \* history: the classes handed to Add/Append so far, in order
    configured, \* history: the tags given at construction and added since
    ret,        \* the last call: its name, its payload and what it returned
    twin,       \* two registries that are handed the same calls
    lock,       \* field lock of the Sync registries: a sync.RWMutex
    thread,     \* the call each goroutine is in, and where in it
    returned    \* history: the classes of the Add calls that have returned

pairVars == <<twin>>

concVars == <<lock, thread, returned>>

vars == <<kind, Typetags, registry, types, added, configured, ret,
          pairVars, concVars>>

----------------------------------------------------------------------------
(* Bounds of the model *)

MaxAdded == 2

MaxTags == 2

NThreads == 2

----------------------------------------------------------------------------
(* Strings *)

DQ == "\""

Something(n) == <<"s", "o", "m", "e", "t", "h", "i", "n", "g", n>>

something1 == Something("1")

something2 == Something("2")

something3 == Something("3")

TagType == <<"t", "y", "p", "e">>

TagUnderType == <<"_", "_", "t", "y", "p", "e">>

FieldData == <<"d", "a", "t", "a">>

ValueData == <<"d", "a", "t", "a">>

ValueElse == <<"e", "l", "s", "e">>

EmptyString == << >>

RECURSIVE TrimLeft(_, _)
TrimLeft(s, cutset) ==
    IF Len(s) > 0 /\ Head(s) \in cutset THEN TrimLeft(Tail(s), cutset) ELSE s

RECURSIVE TrimRight(_, _)
TrimRight(s, cutset) ==
    IF Len(s) > 0 /\ s[Len(s)] \in cutset
    THEN TrimRight(SubSeq(s, 1, Len(s) - 1), cutset)
    ELSE s

(* strings.Trim(s, cutset): s without its leading and trailing characters
   that are in cutset *)
Trim(s, cutset) == TrimRight(TrimLeft(s, cutset), cutset)

(* strings.Join(elems, sep) *)
RECURSIVE Join(_, _)
Join(elems, sep) ==
    IF Len(elems) = 0 THEN << >>
    ELSE IF Len(elems) = 1 THEN elems[1]
    ELSE elems[1] \o sep \o Join(Tail(elems), sep)

CommaSpace == <<",", " ">>

----------------------------------------------------------------------------
(* JSON values and payloads *)

NoFields == [n \in {} |-> << >>]

JString(s) == [k |-> "string", s |-> s, f |-> NoFields]

JNumber(s) == [k |-> "number", s |-> s, f |-> NoFields]

JObject(f) == [k |-> "object", s |-> << >>, f |-> f]

(* The text of a JSON string: its characters between quotes, a quote or a
   backslash inside it escaped *)
RECURSIVE Escaped(_)
Escaped(s) ==
    IF Len(s) = 0 THEN << >>
    ELSE (IF Head(s) \in {DQ, "\\"} THEN <<"\\", Head(s)>> ELSE <<Head(s)>>)
         \o Escaped(Tail(s))

(* An object of the model has at most the field "data", a scalar *)
ScalarText(v) ==
    IF v.k = "string" THEN <<DQ>> \o Escaped(v.s) \o <<DQ>> ELSE v.s

(* string(value) of a json.RawMessage: the bytes of the value as they stand
   in the payload *)
RawText(v) ==
    IF v.k = "object"
    THEN IF FieldData \in DOMAIN v.f
         THEN <<"{", DQ>> \o FieldData \o <<DQ, ":">>
              \o ScalarText(v.f[FieldData]) \o <<"}">>
         ELSE <<"{", "}">>
    ELSE ScalarText(v)

----------------------------------------------------------------------------
(* Errors (github.com/gildas/go-errors as the registries use it) *)

NoError == << >>

NoValue == << >>

Sentinel(id) == [id |-> id, what |-> << >>, value |-> NoValue]

JSONUnmarshalError == Sentinel("JSONUnmarshalError")

(* errors.ArgumentMissing.With(what) *)
ArgumentMissing(what) ==
    <<[id |-> "ArgumentMissing", what |-> what, value |-> NoValue]>>

(* errors.InvalidType.With(what, list) *)
InvalidType(what, list) ==
    <<[id |-> "InvalidType", what |-> what, value |-> list]>>

(* errors.ArgumentInvalid.With(what, value) *)
ArgumentInvalid(what, value) ==
    <<[id |-> "ArgumentInvalid", what |-> what, value |-> <<value>>]>>

(* What encoding/json returns by itself *)
SyntaxError == <<Sentinel("json.SyntaxError")>>

UnmarshalTypeError == <<Sentinel("json.UnmarshalTypeError")>>

(* errors.Is(err, target): target is somewhere in the chain of err *)
Is(err, id) == \E i \in 1..Len(err) : err[i].id = id

(* sentinel.Wrap(err): err one level deeper, under the sentinel *)
Wrap(sentinel, err) == IF err = NoError THEN NoError ELSE <<sentinel>> \o err

----------------------------------------------------------------------------
(* The variants handed to Add.  Something1 and Something2 are the test
   suite's; Other1 stands for a second type of the caller that reports the
   discriminant of Something1, decoded like Something2. *)

Classes == {"Something1", "Something2", "Other1"}

(* class.GetType() *)
GetType(class) ==
    CASE class = "Something1" -> something1
      [] class = "Something2" -> something2
      [] class = "Other1"     -> something1

(* reflect.New(valueType).Interface(): a pointer to a zero value *)
New(class) == [class |-> class, Data |-> EmptyString]

Null == [class |-> "nil", Data |-> EmptyString]

(* encoding/json into struct { Data string `json:"data"` }: an object is
   wanted, other fields are skipped, "data" must be a string *)
DecodeStruct(instance, v) ==
    IF v.k # "object" THEN [object |-> instance, err |-> UnmarshalTypeError]
    ELSE IF FieldData \notin DOMAIN v.f THEN [object |-> instance, err |-> NoError]
    ELSE IF v.f[FieldData].k # "string"
         THEN [object |-> instance, err |-> UnmarshalTypeError]
    ELSE [object |-> [instance EXCEPT !.Data = v.f[FieldData].s],
          err |-> NoError]

(* Something1.UnmarshalJSON, on a pointer receiver *)
Something1UnmarshalJSON(instance, v) ==
    LET inner == DecodeStruct(instance, v) IN
    IF inner.err # NoError THEN [object |-> instance, err |-> inner.err]
    ELSE IF inner.object.Data # ValueData
         THEN [object |-> inner.object,
               err |-> Wrap(JSONUnmarshalError,
                            ArgumentInvalid(FieldData, inner.object.Data))]
    ELSE inner

(* json.Unmarshal(data, instance) for an instance of a registered class *)
JsonUnmarshal(v, instance) ==
    IF instance.class = "Something1"
    THEN Something1UnmarshalJSON(instance, v)
    ELSE DecodeStruct(instance, v)

----------------------------------------------------------------------------
(* Payloads *)

Absent == [k |-> "absent", s |-> << >>, f |-> NoFields]

Fields(m) == [n \in {x \in DOMAIN m : m[x].k # "absent"} |-> m[n]]

ObjectPayload(m) == [form |-> "object", v |-> JObject(Fields(m))]

(* Payloads that are not a JSON object: a syntax error, a JSON value of
   another kind, and the literal null *)
OtherPayloads ==
    { [form |-> x, v |-> JObject(NoFields)] : x \in {"syntax", "nonobject", "null"} }

DataObject(d) == JObject(Fields(FieldData :> d))

TagPayloads ==
    { ObjectPayload((TagType :> t) @@ (TagUnderType :> u) @@ (FieldData :> d)) :
        t \in {Absent, JString(something1), JString(something3),
               JString(EmptyString)},
        u \in {Absent, JString(something2)},
        d \in {JString(ValueData), JString(ValueElse), JNumber(<<"2">>)} }

PropertyPayloads ==
    { ObjectPayload((something1 :> a) @@ (something2 :> b) @@ (something3 :> c)) :
        a \in {Absent, DataObject(JString(ValueData)), DataObject(JString(ValueElse))},
        b \in {Absent, DataObject(JString(ValueData)), JString(ValueData)},
        c \in {Absent, DataObject(JString(ValueData))} }

Payloads == TagPayloads \cup PropertyPayloads \cup OtherPayloads

NoPayload == [form |-> "none", v |-> JObject(NoFields)]

(* json.Unmarshal(payload, &guts), guts a map[string]json.RawMessage: the
   top-level fields with their values undecoded; null leaves the map empty *)
ParseGuts(payload) ==
    CASE payload.form = "object"    -> [err |-> NoError, guts |-> payload.v.f]
      [] payload.form = "null"      -> [err |-> NoError, guts |-> NoFields]
      [] payload.form = "syntax"    -> [err |-> SyntaxError, guts |-> NoFields]
      [] payload.form = "nonobject" -> [err |-> UnmarshalTypeError, guts |-> NoFields]

(* json.Unmarshal(payload, value): the whole payload, which parsed as an
   object with fields, into an instance *)
JsonUnmarshalPayload(payload, instance) == JsonUnmarshal(payload.v, instance)

----------------------------------------------------------------------------
(* The registry object *)

TagKinds == {"TypeRegistry", "SyncTypeRegistry"}

PropertyKinds == {"PropertyRegistry", "SyncPropertyRegistry"}

Kinds == TagKinds \cup PropertyKinds

TagNames == {TagType, TagUnderType}

SeqsUpTo(S, n) == UNION { [1..k -> S] : k \in 0..n }

NoTypes == [c \in {} |-> "nil"]

(* A nil map reads as an empty one; a nil slice as an empty one *)
NilMap == [isNil |-> TRUE, m |-> NoTypes]

NilSlice == [isNil |-> TRUE, s |-> << >>]

(* make(map[string]reflect.Type) and []string{} *)
MakeMap == [isNil |-> FALSE, m |-> NoTypes]

EmptySlice == [isNil |-> FALSE, s |-> << >>]

Returned(op, payload, object, err, n) ==
    [op |-> op, payload |-> payload, object |-> object, err |-> err, n |-> n]

(* NewTypeRegistry(tags...), NewSyncTypeRegistry(tags...): the tags are kept.
   NewPropertyRegistry(tags...), NewSyncPropertyRegistry(tags...): the tags
   are dropped, the type has no Typetags field (modelled as the empty list) *)
NewRegistry(k, tags) ==
    /\ kind = k
    /\ Typetags = IF k \in TagKinds THEN tags ELSE << >>
    /\ registry = MakeMap
    /\ types = EmptySlice
    /\ added = << >>
    /\ configured = Typetags
    /\ ret = Returned("New", NoPayload, Null, NoError, 0)

(* TypeRegistry[T]{} and the like: the zero value, no constructor *)
ZeroRegistry(k) ==
    /\ kind = k
    /\ Typetags = << >>
    /\ registry = NilMap
    /\ types = NilSlice
    /\ added = << >>
    /\ configured = << >>
    /\ ret = Returned("Zero", NoPayload, Null, NoError, 0)

(* One goroutine holds the registry: no goroutine is in a call, the lock is
   free *)
Threads == 1..NThreads

NoOut == [object |-> Null, err |-> NoError, n |-> 0]

IdleThread ==
    [pc |-> "idle", op |-> "none", items |-> << >>, todo |-> << >>,
     local |-> << >>, payload |-> NoPayload, out |-> NoOut]

NoThread == 0

FreeLock == [writer |-> NoThread, readers |-> {}, pending |-> {}]

Quiet ==
    /\ lock = FreeLock
    /\ thread = [t \in Threads |-> IdleThread]
    /\ returned = << >>

Init ==
    /\ \/ \E k \in Kinds, tags \in SeqsUpTo(TagNames, MaxTags) : NewRegistry(k, tags)
       \/ \E k \in Kinds : ZeroRegistry(k)
    /\ twin = << >>
    /\ Quiet

(* A slip: the length of the list of discriminants, not of the map *)
LenTypes == Len(types.s)

(* len(registry.registry) *)
LenRegistry == Cardinality(DOMAIN registry.m)

(* A slip: an entry already there is kept *)
MapStoreKeepFirst(m, typename, class) ==
    [d \in DOMAIN m \cup {typename} |-> IF d \in DOMAIN m THEN m[d] ELSE class]

(* registry.registry[typename] = reflect.TypeOf(class) *)
MapStore(m, typename, class) ==
    [d \in DOMAIN m \cup {typename} |-> IF d = typename THEN class ELSE m[d]]

(* A slip: the list gains the discriminant at its front *)
RECURSIVE AddLoopPrepend(_, _, _)
AddLoopPrepend(m, s, classes) ==
    IF Len(classes) = 0 THEN [m |-> m, s |-> s]
    ELSE LET typename == GetType(Head(classes)) IN
         AddLoopPrepend(
             [d \in DOMAIN m \cup {typename} |->
                 IF d = typename THEN Head(classes) ELSE m[d]],
             <<typename>> \o s,
             Tail(classes))

(* A slip: the list gains a discriminant only when it is new *)
RECURSIVE AddLoopNoDuplicates(_, _, _)
AddLoopNoDuplicates(m, s, classes) ==
    IF Len(classes) = 0 THEN [m |-> m, s |-> s]
    ELSE LET typename == GetType(Head(classes)) IN
         AddLoopNoDuplicates(
             [d \in DOMAIN m \cup {typename} |->
                 IF d = typename THEN Head(classes) ELSE m[d]],
             IF typename \in DOMAIN m THEN s ELSE Append(s, typename),
             Tail(classes))

(* for _, class := range classes { ... }: the list gains the discriminant,
   the map gains or overwrites the entry *)
RECURSIVE AddLoop(_, _, _)
AddLoop(m, s, classes) ==
    IF Len(classes) = 0 THEN [m |-> m, s |-> s]
    ELSE LET typename == GetType(Head(classes)) IN
         AddLoop(MapStore(m, typename, Head(classes)),
                 Append(s, typename),
                 Tail(classes))

(* The body of Add on the fields reg and tys: nil fields are made first,
   then the loop *)
AddFields(reg, tys, classes) ==
    LET m0 == IF reg.isNil THEN MakeMap.m ELSE reg.m
        s0 == IF tys.isNil THEN EmptySlice.s ELSE tys.s
        out == AddLoop(m0, s0, classes)
    IN  [registry |-> [isNil |-> FALSE, m |-> out.m],
         types |-> [isNil |-> FALSE, s |-> out.s]]

AddBody(classes) ==
    LET out == AddFields(registry, types, classes)
    IN  /\ registry' = out.registry
        /\ types' = out.types

ClassLists == SeqsUpTo(Classes, 2)

(* Add(classes...) of the four registries *)
Add ==
    \E classes \in ClassLists :
        /\ Len(added) + Len(classes) <= MaxAdded
        /\ AddBody(classes)
        /\ added' = added \o classes
        /\ ret' = Returned("Add", NoPayload, Null, NoError, 0)
        /\ UNCHANGED <<kind, configured, Typetags>>
        /\ UNCHANGED <<pairVars, concVars>>

(* Append(classes...): return registry.Add(classes...) *)
RegistryAppend ==
    \E classes \in ClassLists :
        /\ Len(added) + Len(classes) <= MaxAdded
        /\ AddBody(classes)
        /\ added' = added \o classes
        /\ ret' = Returned("Append", NoPayload, Null, NoError, 0)
        /\ UNCHANGED <<kind, configured, Typetags>>
        /\ UNCHANGED <<pairVars, concVars>>

(* Size() *)
Size ==
    /\ ret' = Returned("Size", NoPayload, Null, NoError, LenRegistry)
    /\ UNCHANGED <<kind, configured, Typetags, registry, types, added>>
    /\ UNCHANGED <<pairVars, concVars>>

(* Length() *)
Length ==
    /\ ret' = Returned("Length", NoPayload, Null, NoError, LenRegistry)
    /\ UNCHANGED <<kind, configured, Typetags, registry, types, added>>
    /\ UNCHANGED <<pairVars, concVars>>

(* AddTypeTag(tag) of TypeRegistry and SyncTypeRegistry *)
AddTypeTag ==
    /\ kind \in TagKinds
    /\ Len(Typetags) + 1 <= MaxTags
    /\ \E tag \in TagNames :
          /\ Typetags' = Append(Typetags, tag)
          /\ configured' = Append(configured, tag)
    /\ ret' = Returned("AddTypeTag", NoPayload, Null, NoError, 0)
    /\ UNCHANGED <<kind, registry, types, added>>
    /\ UNCHANGED <<pairVars, concVars>>

(* AddTypeTags(tags...) of TypeRegistry and SyncTypeRegistry *)
AddTypeTags ==
    /\ kind \in TagKinds
    /\ \E tags \in SeqsUpTo(TagNames, 2) :
          /\ Len(Typetags) + Len(tags) <= MaxTags
          /\ Typetags' = Typetags \o tags
          /\ configured' = configured \o tags
    /\ ret' = Returned("AddTypeTags", NoPayload, Null, NoError, 0)
    /\ UNCHANGED <<kind, registry, types, added>>
    /\ UNCHANGED <<pairVars, concVars>>

----------------------------------------------------------------------------
(* Unmarshal *)

(* A slip: "type" is looked for whatever the tags are *)
TypetagsWithDefault(tags) == <<TagType>> \o tags

(* if len(registry.Typetags) == 0 { registry.Typetags = []string{"type"} } *)
TypetagsOrDefault(tags) == IF Len(tags) = 0 THEN <<TagType>> ELSE tags

(* A slip: the value is taken with its quotes *)
RECURSIVE ScanTypetagsUntrimmed(_, _, _)
ScanTypetagsUntrimmed(tags, guts, objectType) ==
    IF Len(tags) = 0 THEN objectType
    ELSE ScanTypetagsUntrimmed(Tail(tags), guts,
                               IF Head(tags) \in DOMAIN guts
                               THEN RawText(guts[Head(tags)])
                               ELSE objectType)

(* A slip: the scan stops at the first tag found *)
RECURSIVE ScanTypetagsFirstWins(_, _, _)
ScanTypetagsFirstWins(tags, guts, objectType) ==
    IF Len(tags) = 0 THEN objectType
    ELSE IF Head(tags) \in DOMAIN guts
    THEN Trim(RawText(guts[Head(tags)]), {DQ})
    ELSE ScanTypetagsFirstWins(Tail(tags), guts, objectType)

(* for _, tag := range registry.Typetags { if value, found := guts[tag];
   found { objectType = strings.Trim(string(value), "\"") } } *)
RECURSIVE ScanTypetags(_, _, _)
ScanTypetags(tags, guts, objectType) ==
    IF Len(tags) = 0 THEN objectType
    ELSE ScanTypetags(Tail(tags), guts,
                      IF Head(tags) \in DOMAIN guts
                      THEN Trim(RawText(guts[Head(tags)]), {DQ})
                      ELSE objectType)

(* A slip: the instance is returned beside the error of its decode *)
DecodeOutcomeKeepsInstance(decoded) ==
    IF Is(decoded.err, JSONUnmarshalError.id)
    THEN [object |-> decoded.object, err |-> decoded.err]
    ELSE IF decoded.err # NoError
    THEN [object |-> decoded.object, err |-> Wrap(JSONUnmarshalError, decoded.err)]
    ELSE [object |-> decoded.object, err |-> NoError]

(* A slip: the error of the decode is wrapped whatever it is *)
DecodeOutcomeAlwaysWrap(decoded) ==
    IF decoded.err # NoError
    THEN [object |-> Null, err |-> Wrap(JSONUnmarshalError, decoded.err)]
    ELSE [object |-> decoded.object, err |-> NoError]

(* What Unmarshal returns once json.Unmarshal into the fresh instance has
   ended with decoded.err: an error of the umbrella kind as it is, another
   error wrapped, else the instance *)
DecodeOutcome(decoded) ==
    IF Is(decoded.err, JSONUnmarshalError.id)
    THEN [object |-> Null, err |-> decoded.err]
    ELSE IF decoded.err # NoError
    THEN [object |-> Null, err |-> Wrap(JSONUnmarshalError, decoded.err)]
    ELSE [object |-> decoded.object, err |-> NoError]

(* return null, errors.JSONUnmarshalError.Wrap(err) *)
Failure(err) == [object |-> Null, err |-> Wrap(JSONUnmarshalError, err)]

(* A slip: the missing tag is reported under the last tag name *)
TagUnmarshalLastTagNamed(tags, payload) ==
    LET parsed == ParseGuts(payload) IN
    IF parsed.err # NoError THEN Failure(parsed.err)
    ELSE LET objectType == ScanTypetags(tags, parsed.guts, EmptyString) IN
         IF Len(objectType) = 0 THEN Failure(ArgumentMissing(tags[Len(tags)]))
         ELSE IF objectType \in DOMAIN registry.m
         THEN DecodeOutcome(
                  JsonUnmarshalPayload(payload, New(registry.m[objectType])))
         ELSE Failure(InvalidType(objectType, types.s))

(* A slip: the discriminant is missing only when no tag is in the payload *)
TagUnmarshalInNoTagFound(m, s, tags, payload) ==
    LET parsed == ParseGuts(payload) IN
    IF parsed.err # NoError THEN Failure(parsed.err)
    ELSE LET objectType == ScanTypetags(tags, parsed.guts, EmptyString) IN
         IF \A i \in 1..Len(tags) : tags[i] \notin DOMAIN parsed.guts
         THEN Failure(ArgumentMissing(tags[1]))
         ELSE IF objectType \in DOMAIN m
         THEN DecodeOutcome(
                  JsonUnmarshalPayload(payload, New(m[objectType])))
         ELSE Failure(InvalidType(objectType, s))

(* TypeRegistry.Unmarshal and SyncTypeRegistry.Unmarshal after the default
   tag is set, on the map m and the list s: tags is what registry.Typetags
   then holds *)
TagUnmarshalIn(m, s, tags, payload) ==
    LET parsed == ParseGuts(payload) IN
    IF parsed.err # NoError THEN Failure(parsed.err)
    ELSE LET objectType == ScanTypetags(tags, parsed.guts, EmptyString) IN
         IF Len(objectType) = 0 THEN Failure(ArgumentMissing(tags[1]))
         ELSE IF objectType \in DOMAIN m
         THEN DecodeOutcome(
                  JsonUnmarshalPayload(payload, New(m[objectType])))
         ELSE Failure(InvalidType(objectType, s))

TagUnmarshal(tags, payload) ==
    TagUnmarshalIn(registry.m, types.s, tags, payload)

(* A slip: the whole payload is decoded, not the value of the field *)
PropertyUnmarshalWholePayload(payload) ==
    LET parsed == ParseGuts(payload) IN
    IF parsed.err # NoError THEN {Failure(parsed.err)}
    ELSE LET matching == {p \in DOMAIN parsed.guts : p \in DOMAIN registry.m} IN
         IF matching = {}
         THEN {Failure(ArgumentMissing(Join(types.s, CommaSpace)))}
         ELSE { DecodeOutcome(
                    JsonUnmarshalPayload(payload, New(registry.m[p]))) :
                p \in matching }

(* A slip: the discriminants are joined by a comma alone *)
PropertyUnmarshalCommaOnly(payload) ==
    LET parsed == ParseGuts(payload) IN
    IF parsed.err # NoError THEN {Failure(parsed.err)}
    ELSE LET matching == {p \in DOMAIN parsed.guts : p \in DOMAIN registry.m} IN
         IF matching = {}
         THEN {Failure(ArgumentMissing(Join(types.s, <<",">>)))}
         ELSE { DecodeOutcome(
                    JsonUnmarshal(parsed.guts[p], New(registry.m[p]))) :
                p \in matching }

(* PropertyRegistry.Unmarshal and SyncPropertyRegistry.Unmarshal: every
   outcome the call can have.  for property := range guts visits the fields
   in an order Go leaves unspecified, and the first one that is a key of the
   map decides *)
PropertyUnmarshalIn(m, s, payload) ==
    LET parsed == ParseGuts(payload) IN
    IF parsed.err # NoError THEN {Failure(parsed.err)}
    ELSE LET matching == {p \in DOMAIN parsed.guts : p \in DOMAIN m} IN
         IF matching = {}
         THEN {Failure(ArgumentMissing(Join(s, CommaSpace)))}
         ELSE { DecodeOutcome(
                    JsonUnmarshal(parsed.guts[p], New(m[p]))) :
                p \in matching }

PropertyUnmarshal(payload) == PropertyUnmarshalIn(registry.m, types.s, payload)

(* TypeRegistry.Unmarshal: a value receiver, the default tag goes to the
   copy *)
TypeRegistryUnmarshal ==
    /\ kind = "TypeRegistry"
    /\ \E payload \in Payloads :
          LET out == TagUnmarshal(TypetagsOrDefault(Typetags), payload) IN
          ret' = Returned("Unmarshal", payload, out.object, out.err, 0)
    /\ UNCHANGED <<kind, configured, Typetags, registry, types, added>>
    /\ UNCHANGED <<pairVars, concVars>>

(* SyncTypeRegistry.Unmarshal: a pointer receiver, the default tag goes to
   the registry itself *)
SyncTypeRegistryUnmarshal ==
    /\ kind = "SyncTypeRegistry"
    /\ Typetags' = TypetagsOrDefault(Typetags)
    /\ \E payload \in Payloads :
          LET out == TagUnmarshal(Typetags', payload) IN
          ret' = Returned("Unmarshal", payload, out.object, out.err, 0)
    /\ UNCHANGED <<kind, configured, registry, types, added>>
    /\ UNCHANGED <<pairVars, concVars>>

(* PropertyRegistry.Unmarshal *)
PropertyRegistryUnmarshal ==
    /\ kind = "PropertyRegistry"
    /\ \E payload \in Payloads :
          \E out \in PropertyUnmarshal(payload) :
              ret' = Returned("Unmarshal", payload, out.object, out.err, 0)
    /\ UNCHANGED <<kind, configured, Typetags, registry, types, added>>
    /\ UNCHANGED <<pairVars, concVars>>

(* SyncPropertyRegistry.Unmarshal *)
SyncPropertyRegistryUnmarshal ==
    /\ kind = "SyncPropertyRegistry"
    /\ \E payload \in Payloads :
          \E out \in PropertyUnmarshal(payload) :
              ret' = Returned("Unmarshal", payload, out.object, out.err, 0)
    /\ UNCHANGED <<kind, configured, Typetags, registry, types, added>>
    /\ UNCHANGED <<pairVars, concVars>>

Next ==
    \/ Add
    \/ RegistryAppend
    \/ Size
    \/ Length
    \/ AddTypeTag
    \/ AddTypeTags
    \/ TypeRegistryUnmarshal
    \/ SyncTypeRegistryUnmarshal
    \/ PropertyRegistryUnmarshal
    \/ SyncPropertyRegistryUnmarshal

Spec == Init /\ [][Next]_vars

----------------------------------------------------------------------------
(* Two registries handed the same calls by one goroutine *)

(* The payloads of the calls made on a pair and by the goroutines *)
FewPayloads ==
    { ObjectPayload((TagType :> JString(something1)) @@ (TagUnderType :> u)
                    @@ (FieldData :> JString(ValueData))) :
        u \in {Absent, JString(something2)} }
    \cup
    { ObjectPayload((something1 :> DataObject(JString(ValueData)))
                    @@ (something2 :> b) @@ (something3 :> Absent)) :
        b \in {Absent, DataObject(JString(ValueData))} }

(* NewTypeRegistry(tags...) and the like, as a value *)
NewValue(k, tags) ==
    [kind |-> k, origin |-> "New",
     Typetags |-> IF k \in TagKinds THEN tags ELSE << >>,
     registry |-> MakeMap, types |-> EmptySlice,
     ret |-> Returned("New", NoPayload, Null, NoError, 0)]

(* TypeRegistry[T]{} and the like, as a value *)
ZeroValue(k) ==
    [kind |-> k, origin |-> "Zero", Typetags |-> << >>,
     registry |-> NilMap, types |-> NilSlice,
     ret |-> Returned("Zero", NoPayload, Null, NoError, 0)]

(* The thread-safe registry of the same mode *)
SyncOf(k) == IF k = "TypeRegistry" THEN "SyncTypeRegistry" ELSE "SyncPropertyRegistry"

(* r.Add(classes...), r.Append(classes...) *)
AddOn(r, op, classes) ==
    LET out == AddFields(r.registry, r.types, classes) IN
    [r EXCEPT !.registry = out.registry, !.types = out.types,
              !.ret = Returned(op, NoPayload, Null, NoError, 0)]

(* r.Size(), r.Length() *)
SizeOn(r, op) ==
    [r EXCEPT !.ret = Returned(op, NoPayload, Null, NoError,
                               Cardinality(DOMAIN r.registry.m))]

(* r.AddTypeTag(tag), r.AddTypeTags(tags...) *)
AddTypeTagsOn(r, op, tags) ==
    [r EXCEPT !.Typetags = r.Typetags \o tags,
              !.ret = Returned(op, NoPayload, Null, NoError, 0)]

(* r.Unmarshal(payload): every registry the call can leave.  Only the
   SyncTypeRegistry keeps the default tag *)
UnmarshalOn(r, payload) ==
    IF r.kind \in TagKinds
    THEN LET tags == TypetagsOrDefault(r.Typetags)
             out == TagUnmarshalIn(r.registry.m, r.types.s, tags, payload)
         IN  { [r EXCEPT !.Typetags = IF r.kind = "SyncTypeRegistry"
                                      THEN tags ELSE r.Typetags,
                         !.ret = Returned("Unmarshal", payload,
                                          out.object, out.err, 0)] }
    ELSE { [r EXCEPT !.ret = Returned("Unmarshal", payload,
                                      out.object, out.err, 0)] :
           out \in PropertyUnmarshalIn(r.registry.m, r.types.s, payload) }

(* A registry and the thread-safe one of its mode, made with the same tags;
   or a zero value and the registry its constructor makes with no tags *)
InitPair ==
    /\ \/ \E k \in {"TypeRegistry", "PropertyRegistry"},
             tags \in SeqsUpTo(TagNames, MaxTags) :
             twin = <<NewValue(k, tags), NewValue(SyncOf(k), tags)>>
       \/ \E k \in Kinds : twin = <<ZeroValue(k), NewValue(k, << >>)>>
    /\ ZeroRegistry("TypeRegistry")
    /\ Quiet

Unpaired == <<kind, Typetags, registry, types, added, configured, ret>>

PairAdd ==
    \E classes \in ClassLists :
        /\ Len(twin[1].types.s) + Len(classes) <= MaxAdded
        /\ twin' = <<AddOn(twin[1], "Add", classes), AddOn(twin[2], "Add", classes)>>
        /\ UNCHANGED <<Unpaired, concVars>>

PairAppend ==
    \E classes \in ClassLists :
        /\ Len(twin[1].types.s) + Len(classes) <= MaxAdded
        /\ twin' = <<AddOn(twin[1], "Append", classes),
                     AddOn(twin[2], "Append", classes)>>
        /\ UNCHANGED <<Unpaired, concVars>>

PairSize ==
    /\ twin' = <<SizeOn(twin[1], "Size"), SizeOn(twin[2], "Size")>>
    /\ UNCHANGED <<Unpaired, concVars>>

PairLength ==
    /\ twin' = <<SizeOn(twin[1], "Length"), SizeOn(twin[2], "Length")>>
    /\ UNCHANGED <<Unpaired, concVars>>

PairAddTypeTag ==
    /\ twin[1].kind \in TagKinds
    /\ Len(twin[1].Typetags) + 1 <= MaxTags
    /\ \E tag \in TagNames :
          twin' = <<AddTypeTagsOn(twin[1], "AddTypeTag", <<tag>>),
                    AddTypeTagsOn(twin[2], "AddTypeTag", <<tag>>)>>
    /\ UNCHANGED <<Unpaired, concVars>>

PairAddTypeTags ==
    /\ twin[1].kind \in TagKinds
    /\ \E tags \in SeqsUpTo(TagNames, 2) :
          /\ Len(twin[1].Typetags) + Len(tags) <= MaxTags
          /\ twin' = <<AddTypeTagsOn(twin[1], "AddTypeTags", tags),
                       AddTypeTagsOn(twin[2], "AddTypeTags", tags)>>
    /\ UNCHANGED <<Unpaired, concVars>>

PairUnmarshal ==
    /\ \E payload \in FewPayloads :
          \E a \in UnmarshalOn(twin[1], payload), b \in UnmarshalOn(twin[2], payload) :
              twin' = <<a, b>>
    /\ UNCHANGED <<Unpaired, concVars>>

NextPair ==
    \/ PairAdd
    \/ PairAppend
    \/ PairSize
    \/ PairLength
    \/ PairAddTypeTag
    \/ PairAddTypeTags
    \/ PairUnmarshal

SpecPair == InitPair /\ [][NextPair]_vars

----------------------------------------------------------------------------
(* Goroutines calling one thread-safe registry.  A call is a sequence of
   steps: the lock is asked for, taken, the body runs an access at a time,
   the lock is released on return. *)

SyncKinds == {"SyncTypeRegistry", "SyncPropertyRegistry"}

(* The arguments of the calls of the goroutines *)
FewClassLists == {<<"Something1">>, <<"Something2">>, <<"Something2", "Something1">>}

FewTagLists == {<<TagUnderType>>, <<TagType, TagUnderType>>}

(* The payloads written for the mode of the registry *)
PayloadsFor(k) ==
    { p \in FewPayloads : (TagType \in DOMAIN p.v.f) <=> (k \in TagKinds) }

InitConc ==
    /\ \E k \in SyncKinds, tags \in {<< >>, <<TagUnderType>>} : NewRegistry(k, tags)
    /\ twin = << >>
    /\ Quiet

(* The entries that calls in flight have still to add *)
RECURSIVE StillToAdd(_, _)
StillToAdd(op, T) ==
    IF T = {} THEN 0
    ELSE LET t == CHOOSE x \in T : TRUE IN
         (IF thread[t].op = op THEN Len(thread[t].todo) ELSE 0)
             + StillToAdd(op, T \ {t})

(* A slip: Lock does not wait for the readers to leave *)
CanLockDespiteReaders == lock.writer = NoThread

(* lock.Lock() returns: no writer and no reader holds the lock *)
CanLock == lock.writer = NoThread /\ lock.readers = {}

(* A slip: RLock does not wait for the writer to leave *)
CanRLockDespiteWriter == lock.pending = {}

(* lock.RLock() returns: no writer holds the lock or waits for it *)
CanRLock == lock.writer = NoThread /\ lock.pending = {}

(* A slip: the loop ends one item early *)
LoopDoneEarly(todo) == Len(todo) <= 1

(* for _, class := range classes: the loop has ended *)
LoopDone(todo) == Len(todo) = 0

Enter(t, op, pc, items, payload) ==
    thread' = [thread EXCEPT ![t] = [pc |-> pc, op |-> op, items |-> items,
                                     todo |-> items, local |-> << >>,
                                     payload |-> payload, out |-> NoOut]]

Goto(t, pc) == thread' = [thread EXCEPT ![t].pc = pc]

(* A goroutine calls Add(classes...), or Append(classes...) which calls it:
   registry.lock.Lock() is entered *)
CallAdd(t) ==
    /\ thread[t].pc = "idle"
    /\ \E classes \in FewClassLists :
          /\ Len(added) + StillToAdd("Add", Threads) + Len(classes) <= MaxAdded
          /\ Enter(t, "Add", "Lock", classes, NoPayload)
    /\ lock' = [lock EXCEPT !.pending = @ \cup {t}]
    /\ UNCHANGED <<kind, Typetags, registry, types, added, configured, ret,
                   returned, pairVars>>

(* A goroutine calls AddTypeTags(tags...), or AddTypeTag(tag) with one *)
CallAddTypeTags(t) ==
    /\ thread[t].pc = "idle"
    /\ kind = "SyncTypeRegistry"
    /\ \E tags \in FewTagLists :
          /\ Len(configured) + StillToAdd("AddTypeTags", Threads) + Len(tags)
                <= MaxTags
          /\ Enter(t, "AddTypeTags", "Lock", tags, NoPayload)
    /\ lock' = [lock EXCEPT !.pending = @ \cup {t}]
    /\ UNCHANGED <<kind, Typetags, registry, types, added, configured, ret,
                   returned, pairVars>>

(* A goroutine calls Size(), or Length(): registry.lock.RLock() is entered *)
CallSize(t) ==
    /\ thread[t].pc = "idle"
    /\ Enter(t, "Size", "RLock", << >>, NoPayload)
    /\ UNCHANGED <<kind, Typetags, registry, types, added, configured, ret,
                   lock, returned, pairVars>>

(* A goroutine calls Unmarshal(payload) *)
CallUnmarshal(t) ==
    /\ thread[t].pc = "idle"
    /\ \E payload \in PayloadsFor(kind) :
          Enter(t, "Unmarshal", "RLock", << >>, payload)
    /\ UNCHANGED <<kind, Typetags, registry, types, added, configured, ret,
                   lock, returned, pairVars>>

(* registry.lock.Lock() returns *)
LockAcquire(t) ==
    /\ thread[t].pc = "Lock"
    /\ CanLock
    /\ lock' = [lock EXCEPT !.writer = t, !.pending = @ \ {t}]
    /\ Goto(t, "body")
    /\ UNCHANGED <<kind, Typetags, registry, types, added, configured, ret,
                   returned, pairVars>>

(* registry.lock.RLock() returns *)
RLockAcquire(t) ==
    /\ thread[t].pc = "RLock"
    /\ CanRLock
    /\ lock' = [lock EXCEPT !.readers = @ \cup {t}]
    /\ Goto(t, IF thread[t].op = "Unmarshal" /\ kind = "SyncTypeRegistry"
               THEN "checkTags" ELSE "body")
    /\ UNCHANGED <<kind, Typetags, registry, types, added, configured, ret,
                   returned, pairVars>>

(* Add, a turn of the loop: registry.types is read for append *)
AddRead(t) ==
    /\ thread[t].pc = "body" /\ thread[t].op = "Add"
    /\ ~LoopDone(thread[t].todo)
    /\ thread' = [thread EXCEPT ![t].pc = "store",
                                ![t].local = IF types.isNil THEN EmptySlice.s
                                                            ELSE types.s]
    /\ UNCHANGED <<kind, Typetags, registry, types, added, configured, ret,
                   lock, returned, pairVars>>

(* Add, the same turn: registry.types is assigned what append returns, the
   map gains or overwrites the entry *)
AddItem(t) ==
    /\ thread[t].pc = "store" /\ thread[t].op = "Add"
    /\ LET class == Head(thread[t].todo)
           typename == GetType(class)
       IN  /\ types' = [isNil |-> FALSE, s |-> Append(thread[t].local, typename)]
           /\ registry' = [isNil |-> FALSE,
                           m |-> MapStore(registry.m, typename, class)]
           /\ added' = Append(added, class)
    /\ thread' = [thread EXCEPT ![t].pc = "body", ![t].todo = Tail(@)]
    /\ UNCHANGED <<kind, Typetags, configured, ret, lock, returned, pairVars>>

(* AddTypeTags: registry.Typetags is read for append *)
AddTagsRead(t) ==
    /\ thread[t].pc = "body" /\ thread[t].op = "AddTypeTags"
    /\ thread[t].todo # << >>
    /\ thread' = [thread EXCEPT ![t].pc = "store", ![t].local = Typetags]
    /\ UNCHANGED <<kind, Typetags, registry, types, added, configured, ret,
                   lock, returned, pairVars>>

(* AddTypeTags: registry.Typetags = append(registry.Typetags, tags...) *)
AddTags(t) ==
    /\ thread[t].pc = "store" /\ thread[t].op = "AddTypeTags"
    /\ Typetags' = thread[t].local \o thread[t].todo
    /\ configured' = configured \o thread[t].todo
    /\ thread' = [thread EXCEPT ![t].pc = "body", ![t].todo = << >>]
    /\ UNCHANGED <<kind, registry, types, added, ret, lock, returned, pairVars>>

(* Add and AddTypeTags return: the deferred registry.lock.Unlock() *)
Unlock(t) ==
    /\ thread[t].pc = "body" /\ thread[t].op \in {"Add", "AddTypeTags"}
    /\ IF thread[t].op = "Add" THEN LoopDone(thread[t].todo)
                               ELSE thread[t].todo = << >>
    /\ lock' = [lock EXCEPT !.writer = NoThread]
    /\ returned' = IF thread[t].op = "Add" THEN returned \o thread[t].items
                                           ELSE returned
    /\ thread' = [thread EXCEPT ![t] = IdleThread]
    /\ UNCHANGED <<kind, Typetags, registry, types, added, configured, ret,
                   pairVars>>

(* Size: len(registry.registry) *)
SizeRead(t) ==
    /\ thread[t].pc = "body" /\ thread[t].op = "Size"
    /\ thread' = [thread EXCEPT ![t].pc = "RUnlock",
                                ![t].out = [NoOut EXCEPT !.n = LenRegistry]]
    /\ UNCHANGED <<kind, Typetags, registry, types, added, configured, ret,
                   lock, returned, pairVars>>

(* SyncTypeRegistry.Unmarshal: if len(registry.Typetags) == 0 *)
UnmarshalCheckTags(t) ==
    /\ thread[t].pc = "checkTags"
    /\ Goto(t, IF Len(Typetags) = 0 THEN "setTags" ELSE "resolve")
    /\ UNCHANGED <<kind, Typetags, registry, types, added, configured, ret,
                   lock, returned, pairVars>>

(* SyncTypeRegistry.Unmarshal: registry.Typetags = []string{"type"} *)
UnmarshalSetTags(t) ==
    /\ thread[t].pc = "setTags"
    /\ Typetags' = <<TagType>>
    /\ Goto(t, "resolve")
    /\ UNCHANGED <<kind, registry, types, added, configured, ret,
                   lock, returned, pairVars>>

(* SyncTypeRegistry.Unmarshal from the parse on: the tags are scanned, the
   map and the list are read *)
UnmarshalResolve(t) ==
    /\ thread[t].pc = "resolve"
    /\ \E out \in {TagUnmarshal(Typetags, thread[t].payload)} :
          thread' = [thread EXCEPT ![t].pc = "RUnlock",
                                ![t].out = [NoOut EXCEPT !.object = out.object,
                                                         !.err = out.err]]
    /\ UNCHANGED <<kind, Typetags, registry, types, added, configured, ret,
                   lock, returned, pairVars>>

(* SyncPropertyRegistry.Unmarshal from the parse on *)
UnmarshalProperty(t) ==
    /\ thread[t].pc = "body" /\ thread[t].op = "Unmarshal"
    /\ \E out \in PropertyUnmarshal(thread[t].payload) :
          thread' = [thread EXCEPT ![t].pc = "RUnlock",
                                   ![t].out = [NoOut EXCEPT !.object = out.object,
                                                            !.err = out.err]]
    /\ UNCHANGED <<kind, Typetags, registry, types, added, configured, ret,
                   lock, returned, pairVars>>

(* A slip: RUnlock is not deferred, a return with an error skips it *)
ReadersLeftOnSuccess(t) ==
    IF thread[t].out.err = NoError THEN lock.readers \ {t} ELSE lock.readers

(* defer registry.lock.RUnlock(): the readers left once goroutine t returns,
   whatever it returns *)
ReadersLeft(t) == lock.readers \ {t}

(* Size and Unmarshal return: the deferred registry.lock.RUnlock() *)
RUnlock(t) ==
    /\ thread[t].pc = "RUnlock"
    /\ lock' = [lock EXCEPT !.readers = ReadersLeft(t)]
    /\ thread' = [thread EXCEPT ![t] = IdleThread]
    /\ UNCHANGED <<kind, Typetags, registry, types, added, configured, ret,
                   returned, pairVars>>

(* The fields that the next step of goroutine t writes, and those it reads *)
Writes(t) ==
    CASE thread[t].pc = "store" /\ thread[t].op = "Add"
                                                -> {"registry", "types"}
      [] thread[t].pc = "store" /\ thread[t].op = "AddTypeTags"
                                                -> {"Typetags"}
      [] thread[t].pc = "setTags"               -> {"Typetags"}
      [] OTHER                                  -> {}

Reads(t) ==
    CASE thread[t].pc = "body" /\ thread[t].op = "Add"
             /\ thread[t].todo # << >>          -> {"registry", "types"}
      [] thread[t].pc = "store" /\ thread[t].op = "Add"
                                                -> {"registry"}
      [] thread[t].pc = "body" /\ thread[t].op = "AddTypeTags"
             /\ thread[t].todo # << >>          -> {"Typetags"}
      [] thread[t].pc = "body" /\ thread[t].op = "Size"
                                                -> {"registry"}
      [] thread[t].pc = "body" /\ thread[t].op = "Unmarshal"
                                                -> {"registry", "types"}
      [] thread[t].pc = "checkTags"             -> {"Typetags"}
      [] thread[t].pc = "resolve"               -> {"Typetags", "registry", "types"}
      [] OTHER                                  -> {}

NextConc ==
    \/ \E t \in Threads : CallAdd(t)
    \/ \E t \in Threads : CallAddTypeTags(t)
    \/ \E t \in Threads : CallSize(t)
    \/ \E t \in Threads : CallUnmarshal(t)
    \/ \E t \in Threads : LockAcquire(t)
    \/ \E t \in Threads : RLockAcquire(t)
    \/ \E t \in Threads : AddRead(t)
    \/ \E t \in Threads : AddItem(t)
    \/ \E t \in Threads : AddTagsRead(t)
    \/ \E t \in Threads : AddTags(t)
    \/ \E t \in Threads : Unlock(t)
    \/ \E t \in Threads : SizeRead(t)
    \/ \E t \in Threads : UnmarshalCheckTags(t)
    \/ \E t \in Threads : UnmarshalSetTags(t)
    \/ \E t \in Threads : UnmarshalResolve(t)
    \/ \E t \in Threads : UnmarshalProperty(t)
    \/ \E t \in Threads : RUnlock(t)

SpecConc == InitConc /\ [][NextConc]_vars

(* The steps of goroutine t inside a call: the scheduler runs a goroutine
   that can run, and a goroutine is free not to call at all *)
StepOf(t) ==
    \/ LockAcquire(t)
    \/ RLockAcquire(t)
    \/ AddRead(t)
    \/ AddItem(t)
    \/ AddTagsRead(t)
    \/ AddTags(t)
    \/ Unlock(t)
    \/ SizeRead(t)
    \/ UnmarshalCheckTags(t)
    \/ UnmarshalSetTags(t)
    \/ UnmarshalResolve(t)
    \/ UnmarshalProperty(t)
    \/ RUnlock(t)

FairScheduling == \A t \in Threads : WF_vars(StepOf(t))

SpecConcFair == SpecConc /\ FairScheduling

----------------------------------------------------------------------------
(* What the properties below speak of *)

IsUnmarshal == ret.op = "Unmarshal"

(* The payload of the last call is a JSON object *)
WellFormed == ret.payload.form = "object"

(* Its top-level fields *)
Guts == ret.payload.v.f

Outcome == [object |-> ret.object, err |-> ret.err]

Max(S) == CHOOSE x \in S : \A y \in S : y <= x

(* The discriminants registered so far, and the class each one was
   registered with last *)
Registered == { GetType(added[i]) : i \in 1..Len(added) }

RegisteredInOrder == [i \in 1..Len(added) |-> GetType(added[i])]

LastRegistered(d) ==
    added[Max({i \in 1..Len(added) : GetType(added[i]) = d})]

(* The tag names the registry is configured with, "type" when with none *)
ConfiguredTags == IF Typetags = << >> THEN <<TagType>> ELSE Typetags

PresentTags == { i \in 1..Len(ConfiguredTags) : ConfiguredTags[i] \in DOMAIN Guts }

LastPresentTag == ConfiguredTags[Max(PresentTags)]

(* A field carries d: its value is the JSON string d *)
Carries(v, d) == v.k = "string" /\ v.s = d

(* The fields f are valid for a class, and the instance they decode to *)
ValidFor(class, f) ==
    IF class = "Something1"
    THEN FieldData \in DOMAIN f /\ Carries(f[FieldData], ValueData)
    ELSE FieldData \notin DOMAIN f \/ f[FieldData].k = "string"

Expected(class, f) ==
    [class |-> class,
     Data |-> IF FieldData \in DOMAIN f THEN f[FieldData].s ELSE EmptyString]

Umbrella(cause) == <<JSONUnmarshalError>> \o cause

----------------------------------------------------------------------------
(* C1, as stated: in tag-mode, when some configured tag name of a
   well-formed payload carries a registered discriminant d and the payload is
   valid for the variant V registered for d, Unmarshal returns no error and
   an instance of V decoded from the whole payload. *)
C1_AnyConfiguredTag ==
    (IsUnmarshal /\ kind \in TagKinds /\ WellFormed) =>
        \A i \in PresentTags :
            LET v == Guts[ConfiguredTags[i]] IN
            (v.k = "string" /\ v.s \in Registered
                /\ ValidFor(LastRegistered(v.s), Guts))
            => Outcome = [object |-> Expected(LastRegistered(v.s), Guts),
                          err |-> NoError]

(* C1, amended: the same when the configured tag name that carries d is the
   last one, in configured order, that the payload has. *)
C1_LastConfiguredTag ==
    (IsUnmarshal /\ kind \in TagKinds /\ WellFormed /\ PresentTags # {}) =>
        LET v == Guts[LastPresentTag] IN
        (v.k = "string" /\ v.s \in Registered
            /\ ValidFor(LastRegistered(v.s), Guts))
        => Outcome = [object |-> Expected(LastRegistered(v.s), Guts),
                      err |-> NoError]

(* C1 happens: two configured tag names are in the payload, the last one
   carries a registered discriminant, and the instance is returned *)
C1_Witness ==
    /\ IsUnmarshal /\ kind \in TagKinds /\ WellFormed
    /\ Cardinality(PresentTags) = 2
    /\ Guts[LastPresentTag].s \in Registered
    /\ ret.err = NoError
    /\ ret.object = Expected(LastRegistered(Guts[LastPresentTag].s), Guts)
    /\ ret.object.Data = ValueData

----------------------------------------------------------------------------
(* The top-level fields of the payload that are registered discriminants *)
MatchingFields == { p \in DOMAIN Guts : p \in Registered }

(* The value v is valid for a class: an object whose fields are *)
ValidValueFor(class, v) == v.k = "object" /\ ValidFor(class, v.f)

(* C2, as stated: in property-mode, when exactly one top-level field name of
   the payload is a registered discriminant d, Unmarshal decodes that field's
   value alone into an instance of the variant registered for d and returns
   it with no error, whatever the other fields. *)
C2_OneMatchingField ==
    (IsUnmarshal /\ kind \in PropertyKinds /\ WellFormed) =>
        \A d \in MatchingFields :
            MatchingFields = {d}
            => Outcome = [object |-> Expected(LastRegistered(d), Guts[d].f),
                          err |-> NoError]

(* C2, amended: the same when the value of that field is valid for the
   variant; when it is not, an error and no instance are returned. *)
C2_OneMatchingValidField ==
    (IsUnmarshal /\ kind \in PropertyKinds /\ WellFormed) =>
        \A d \in MatchingFields :
            MatchingFields = {d}
            => IF ValidValueFor(LastRegistered(d), Guts[d])
               THEN Outcome = [object |-> Expected(LastRegistered(d), Guts[d].f),
                               err |-> NoError]
               ELSE ret.object = Null /\ ret.err # NoError

(* C2 happens: one field is a registered discriminant, another field is not
   registered, and the instance decoded from the first is returned *)
C2_Witness ==
    /\ IsUnmarshal /\ kind \in PropertyKinds /\ WellFormed
    /\ MatchingFields = {something2}
    /\ something3 \in DOMAIN Guts
    /\ ret.err = NoError
    /\ ret.object = [class |-> "Something2", Data |-> ValueData]

(* C3: in tag-mode, when no configured tag name is a top-level field of a
   well-formed payload, Unmarshal returns no instance and the umbrella error
   over ArgumentMissing whose detail is the first configured tag name, "type"
   when none is configured; InvalidType is not in the chain. *)
C3_NoTagIsMissingDiscriminant ==
    (IsUnmarshal /\ kind \in TagKinds /\ WellFormed /\ PresentTags = {}) =>
        /\ ret.object = Null
        /\ ret.err = Umbrella(ArgumentMissing(ConfiguredTags[1]))
        /\ ~Is(ret.err, "InvalidType")

(* C3 happens: the payload has the field "type", the registry is configured
   with two other-first tag names, and the error names the first of them *)
C3_Witness ==
    /\ IsUnmarshal /\ kind \in TagKinds /\ WellFormed
    /\ PresentTags = {}
    /\ Len(Typetags) = 2
    /\ TagType \in DOMAIN Guts
    /\ Len(ret.err) = 2 /\ ret.err[2].id = "ArgumentMissing"
    /\ ret.err[2].what = TagUnderType

(* A list holds each of its elements once *)
NoDuplicates(list) ==
    \A i, j \in 1..Len(list) : list[i] = list[j] => i = j

Elements(list) == { list[i] : i \in 1..Len(list) }

(* C4, as stated: in tag-mode, when a configured tag name is present with a
   value that is not a registered discriminant (the empty string included),
   Unmarshal returns the umbrella error over InvalidType carrying that value
   and a list holding each registered discriminant once and nothing else. *)
C4_UnknownListsEachOnce ==
    (IsUnmarshal /\ kind \in TagKinds /\ WellFormed /\ PresentTags # {}) =>
        LET v == Guts[LastPresentTag] IN
        (v.k = "string" /\ v.s \notin Registered)
        => /\ ret.object = Null
           /\ Len(ret.err) = 2
           /\ ret.err[1] = JSONUnmarshalError
           /\ ret.err[2].id = "InvalidType"
           /\ ret.err[2].what = v.s
           /\ NoDuplicates(ret.err[2].value)
           /\ Elements(ret.err[2].value) = Registered

(* C4, amended: when the value of the last present configured tag name is
   not empty and not registered, the error is the umbrella error over
   InvalidType carrying that value and the discriminants in registration
   order, one entry for each registered item; the elements of that list are
   the registered discriminants. *)
C4_UnknownListsRegistrations ==
    (IsUnmarshal /\ kind \in TagKinds /\ WellFormed /\ PresentTags # {}) =>
        LET v == Guts[LastPresentTag] IN
        (v.k = "string" /\ v.s # EmptyString /\ v.s \notin Registered)
        => /\ ret.object = Null
           /\ ret.err = Umbrella(InvalidType(v.s, RegisteredInOrder))
           /\ Elements(ret.err[2].value) = Registered

(* C4 happens: a discriminant was registered twice, the payload names
   another one, and the error lists the registered one twice *)
C4_Witness ==
    /\ IsUnmarshal /\ kind \in TagKinds /\ WellFormed
    /\ Len(ret.err) = 2 /\ ret.err[2].id = "InvalidType"
    /\ ret.err[2].what = something3
    /\ ret.err[2].value = <<something1, something1>>

(* What the last present configured tag name carries *)
Candidate == Guts[LastPresentTag].s

(* C5: in tag-mode, when configured tag names are present in the payload,
   the discriminant used is the value of the one that is last in configured
   order: an instance is of a variant of that discriminant, InvalidType
   carries it, and ArgumentMissing is returned exactly when it is empty. *)
C5_LastConfiguredTagWins ==
    (IsUnmarshal /\ kind \in TagKinds /\ WellFormed /\ PresentTags # {}) =>
        /\ ret.err = NoError => GetType(ret.object.class) = Candidate
        /\ Is(ret.err, "InvalidType") =>
              ret.err[2].what = Candidate /\ Candidate \notin Registered
        /\ Is(ret.err, "ArgumentMissing") <=> Candidate = EmptyString
        /\ Candidate \in Registered => ~Is(ret.err, "InvalidType")

(* C5 happens: "__type" is configured before "type", both are present with
   different values, and the instance is of the variant that "type" names *)
C5_Witness ==
    /\ IsUnmarshal /\ kind \in TagKinds /\ WellFormed
    /\ Typetags = <<TagUnderType, TagType>>
    /\ PresentTags = {1, 2}
    /\ Carries(Guts[TagUnderType], something2)
    /\ Carries(Guts[TagType], something1)
    /\ something2 \in Registered
    /\ ret.err = NoError
    /\ ret.object.class = "Something1"

----------------------------------------------------------------------------
(* The variant a successful or failed decode went to is the one registered
   last for the discriminant the payload selects *)
DecodesIntoLastRegistered ==
    /\ (kind \in TagKinds /\ PresentTags # {} /\ Candidate \in Registered) =>
          Outcome = DecodeOutcome(JsonUnmarshalPayload(
                        ret.payload, New(LastRegistered(Candidate))))
    /\ (kind \in PropertyKinds /\ MatchingFields # {}) =>
          \E p \in MatchingFields :
              Outcome = DecodeOutcome(JsonUnmarshal(
                            Guts[p], New(LastRegistered(p))))
    /\ ret.err = NoError =>
          ret.object.class = LastRegistered(GetType(ret.object.class))

(* A step that registers only discriminants that were registered before *)
RegistersAgain ==
    /\ Len(added') > Len(added)
    /\ \A i \in (Len(added) + 1)..Len(added') : GetType(added'[i]) \in Registered

(* C6: in the four registries, registering a discriminant again does not
   increase Size(), and every later Unmarshal of a payload that selects it
   decodes into the type registered last. *)
C6_ReRegistrationOverwrites ==
    /\ [][RegistersAgain => LenRegistry' = LenRegistry]_vars
    /\ []((IsUnmarshal /\ WellFormed) => DecodesIntoLastRegistered)

(* C6 happens: Something1 was registered, then Other1 under the same
   discriminant; a payload Something1 rejects decodes into an Other1 *)
C6_Witness ==
    /\ IsUnmarshal /\ WellFormed
    /\ added = <<"Something1", "Other1">>
    /\ LenRegistry = 1
    /\ ret.err = NoError
    /\ ret.object = [class |-> "Other1", Data |-> ValueElse]

(* C7: after any calls, Size() and Length() are the number of distinct
   discriminants ever registered, and every key of the catalog maps to a
   type that was registered. *)
C7_SizeIsDistinctDiscriminants ==
    /\ LenRegistry = Cardinality(Registered)
    /\ ret.op \in {"Size", "Length"} => ret.n = Cardinality(Registered)
    /\ DOMAIN registry.m = Registered
    /\ \A d \in DOMAIN registry.m : registry.m[d] \in Classes

(* C7 happens: two items were registered under one discriminant and Length()
   returns 1 *)
C7_Witness ==
    /\ ret.op = "Length"
    /\ Len(added) = 2
    /\ ret.n = 1

(* C8: in property-mode, when no top-level field name of a well-formed
   payload is a registered discriminant, Unmarshal returns no instance and
   the umbrella error over ArgumentMissing whose detail is the discriminants
   in registration order joined by ", "; property-mode never returns
   InvalidType. *)
C8_NoFieldIsMissingDiscriminant ==
    (IsUnmarshal /\ kind \in PropertyKinds) =>
        /\ ~Is(ret.err, "InvalidType")
        /\ (WellFormed /\ MatchingFields = {}) =>
              /\ ret.object = Null
              /\ ret.err = Umbrella(ArgumentMissing(
                               Join(RegisteredInOrder, <<",", " ">>)))

(* C8 happens: something1 and something2 are registered, the payload has the
   field something3 alone, and the detail is "something1, something2" *)
C8_Witness ==
    /\ IsUnmarshal /\ kind \in PropertyKinds /\ WellFormed
    /\ DOMAIN Guts = {something3}
    /\ Len(ret.err) = 2 /\ ret.err[2].id = "ArgumentMissing"
    /\ ret.err[2].what = something1 \o <<",", " ">> \o something2

(* Every outcome Unmarshal of the last payload can have in this state *)
Outcomes ==
    IF kind \in TagKinds
    THEN {TagUnmarshal(TypetagsOrDefault(Typetags), ret.payload)}
    ELSE PropertyUnmarshal(ret.payload)

(* C9: Unmarshal is a function of the payload and the state of the catalog:
   the outcome of a call is the only outcome the call can have. *)
C9_Deterministic ==
    IsUnmarshal => \A out \in Outcomes : out = Outcome

(* The errors a chain can end with *)
Causes ==
    {"json.SyntaxError", "json.UnmarshalTypeError", "ArgumentMissing",
     "InvalidType", "ArgumentInvalid"}

(* C10: every error Unmarshal returns, in the four registries, is the
   umbrella error over its cause, and the umbrella is in the chain once: an
   error of a variant that is under the umbrella already is not wrapped
   again. *)
C10_ErrorsUnderUmbrellaOnce ==
    (IsUnmarshal /\ ret.err # NoError) =>
        /\ ret.object = Null
        /\ Len(ret.err) = 2
        /\ ret.err[1] = JSONUnmarshalError
        /\ ret.err[2].id \in Causes
        /\ Cardinality({i \in 1..Len(ret.err) : ret.err[i] = JSONUnmarshalError}) = 1

(* C10 happens: Something1 rejects the value "else" with its own error under
   the umbrella, and Unmarshal returns that error as it is *)
C10_Witness ==
    /\ IsUnmarshal /\ WellFormed
    /\ ret.object = Null
    /\ ret.err = Umbrella(ArgumentInvalid(FieldData, ValueElse))

----------------------------------------------------------------------------
(* C11: Unmarshal has no partial success: it returns an instance of a
   registered type and no error, or no instance and an error; an instance
   whose decode or validation failed is not returned. *)
C11_NoPartialSuccess ==
    IsUnmarshal =>
        \/ ret.err = NoError /\ ret.object # Null /\ ret.object.class \in Classes
        \/ ret.err # NoError /\ ret.object = Null

(* C11 happens: the payload selects a registered variant whose structural
   decode fails, and no instance comes back *)
C11_Witness ==
    /\ IsUnmarshal /\ WellFormed
    /\ kind \in TagKinds
    /\ PresentTags # {}
    /\ Candidate \in Registered
    /\ ret.err = Umbrella(UnmarshalTypeError)
    /\ ret.object = Null

(* C12: a payload that is not a well-formed JSON object yields, in both
   modes and whatever the catalog and the tags, the umbrella error over the
   parse error, never ArgumentMissing nor InvalidType. *)
C12_NotAnObjectIsMalformed ==
    (IsUnmarshal /\ ~WellFormed) =>
        /\ ret.object = Null
        /\ Len(ret.err) = 2
        /\ ret.err[1] = JSONUnmarshalError
        /\ ret.err[2].id \in {"json.SyntaxError", "json.UnmarshalTypeError"}
        /\ ~Is(ret.err, "ArgumentMissing")
        /\ ~Is(ret.err, "InvalidType")

(* The payload of the last call without its top-level field name *)
PayloadWithout(name) ==
    [form |-> ret.payload.form,
     v |-> JObject([n \in DOMAIN Guts \ {name} |-> Guts[n]])]

(* C17: in tag-mode, with no tag name configured Unmarshal behaves as with
   the tag list ["type"]; with tag names configured that do not include
   "type", the field "type" of the payload is not consulted: the outcome is
   that of the payload without it, and a payload with none of the configured
   tag names yields ArgumentMissing naming the first of them. *)
C17_DefaultTagOnlyWhenNoneConfigured ==
    (IsUnmarshal /\ kind \in TagKinds /\ WellFormed) =>
        /\ Typetags \in {<< >>, <<TagType>>} =>
              Outcome = TagUnmarshal(<<TagType>>, ret.payload)
        /\ (Typetags # << >> /\ TagType \notin Elements(Typetags)) =>
              /\ Outcome = TagUnmarshal(Typetags, PayloadWithout(TagType))
              /\ PresentTags = {} =>
                    ret.err = Umbrella(ArgumentMissing(Typetags[1]))

(* C17 happens: the registry is configured with "__type" alone, the payload
   carries a registered discriminant under "type" alone, and the error names
   "__type" *)
C17_Witness ==
    /\ IsUnmarshal /\ kind \in TagKinds /\ WellFormed
    /\ Typetags = <<TagUnderType>>
    /\ TagType \in DOMAIN Guts
    /\ Guts[TagType].s \in Registered
    /\ TagUnderType \notin DOMAIN Guts
    /\ ret.err = Umbrella(ArgumentMissing(TagUnderType))

(* C18: the tag-name list is the tags given at construction followed by the
   tags added through AddTypeTag and AddTypeTags, in call order. *)
C18_TagListIsGivenTags ==
    kind \in TagKinds => Typetags = configured

(* C20: the known-discriminants list is the discriminant of every registered
   item in registration order, one entry for each item, and its elements are
   the keys of the catalog. *)
C20_KnownDiscriminantsList ==
    /\ types.s = RegisteredInOrder
    /\ Len(types.s) = Len(added)
    /\ Elements(types.s) = DOMAIN registry.m

(* C20 happens: Something2 then Something1 were registered, by Append, and
   the list holds their discriminants in that order *)
C20_Witness ==
    /\ ret.op = "Append"
    /\ added = <<"Something2", "Something1">>
    /\ types.s = <<something2, something1>>
    /\ DOMAIN registry.m = {something1, something2}

----------------------------------------------------------------------------
(* What a call on a registry of a pair returned *)
Result(r) == [object |-> r.ret.object, err |-> r.ret.err, n |-> r.ret.n]

IsSyncPair == twin[1].origin = "New" /\ twin[2].kind = SyncOf(twin[1].kind)

IsZeroPair == twin[1].origin = "Zero"

(* C16, in tag-mode: a TypeRegistry and a SyncTypeRegistry made with the same
   tags and handed the same calls by one goroutine return the same results
   at every step and hold the same tag-name list. *)
C16_SyncSameAsPlain ==
    (IsSyncPair /\ twin[1].kind = "TypeRegistry") =>
        /\ Result(twin[1]) = Result(twin[2])
        /\ twin[1].Typetags = twin[2].Typetags

(* C19: a zero value and the registry its constructor makes with no tags,
   handed the same Add, Append, Size, Length and Unmarshal calls, return the
   same results, and Unmarshal on the zero value before any Add returns an
   error. *)
C19_ZeroSameAsConstructed ==
    IsZeroPair =>
        /\ Result(twin[1]) = Result(twin[2])
        /\ (twin[1].ret.op = "Unmarshal" /\ twin[1].types.s = << >>) =>
              twin[1].ret.err # NoError

----------------------------------------------------------------------------
(* Goroutine t is between taking the lock and releasing it *)
Inside(t) ==
    thread[t].pc \in {"body", "store", "checkTags", "setTags", "resolve",
                      "RUnlock"}

WriterInside(t) == Inside(t) /\ thread[t].op \in {"Add", "AddTypeTags"}

ReaderInside(t) == Inside(t) /\ thread[t].op \in {"Size", "Unmarshal"}

(* The discriminants of the Add calls that have returned *)
Seen == { GetType(returned[i]) : i \in 1..Len(returned) }

(* C13: on the thread-safe registries no field (the catalog map, the list of
   known discriminants, the tag-name list) is about to be written by one
   goroutine while another goroutine is about to read or write it. *)
C13_NoDataRace ==
    \A t, u \in Threads :
        t # u => Writes(t) \cap (Reads(u) \cup Writes(u)) = {}

(* C14: a goroutine in the body of Add, Append, AddTypeTag or AddTypeTags
   holds the lock as its writer and no other goroutine is inside a critical
   section; a goroutine in the body of Unmarshal, Size or Length holds the
   lock as a reader, with no writer, and shares it with the other readers. *)
C14_LockProtocol ==
    \A t \in Threads :
        /\ WriterInside(t) =>
              /\ lock.writer = t
              /\ lock.readers = {}
              /\ \A u \in Threads \ {t} : ~Inside(u)
        /\ ReaderInside(t) =>
              /\ t \in lock.readers
              /\ lock.writer = NoThread
        /\ Writes(t) # {} => (ReaderInside(t) \/ WriterInside(t))
        /\ Reads(t) # {} => (ReaderInside(t) \/ WriterInside(t))

(* C14 happens: an Unmarshal and a Size are inside their critical sections
   at the same time, both holding the lock as readers *)
C14_Witness ==
    \E t, u \in Threads :
        /\ t # u
        /\ ReaderInside(t) /\ thread[t].op = "Unmarshal"
        /\ ReaderInside(u) /\ thread[u].op = "Size"
        /\ {t, u} \subseteq lock.readers

(* C15: when Size or Unmarshal has read the registry, every Add that had
   returned by then (so every Add that returned before the call started) is
   in what it read: Size counts its discriminants, and Unmarshal of a payload
   that names one of them resolves it to the variant registered for it. *)
C15_ReturnedAddIsVisible ==
    \A t \in Threads :
        thread[t].pc = "RUnlock" =>
            LET out == thread[t].out
                f == thread[t].payload.v.f
            IN  /\ Seen \subseteq DOMAIN registry.m
                /\ thread[t].op = "Size" =>
                      /\ out.n = Cardinality(DOMAIN registry.m)
                      /\ out.n >= Cardinality(Seen)
                /\ (thread[t].op = "Unmarshal" /\ kind = "SyncTypeRegistry") =>
                      LET d == ScanTypetags(Typetags, f, EmptyString) IN
                      d \in Seen =>
                          /\ ~Is(out.err, "InvalidType")
                          /\ ~Is(out.err, "ArgumentMissing")
                          /\ out.err = NoError =>
                                out.object.class = registry.m[d]
                /\ (thread[t].op = "Unmarshal" /\ kind = "SyncPropertyRegistry"
                        /\ DOMAIN f \cap Seen # {}) =>
                          /\ ~Is(out.err, "InvalidType")
                          /\ ~Is(out.err, "ArgumentMissing")
                          /\ out.err = NoError =>
                                \E d \in DOMAIN f \cap DOMAIN registry.m :
                                    out.object.class = registry.m[d]

(* C15 happens: an Add has returned, an Unmarshal that started after it has
   resolved its discriminant, while another Add waits for the lock *)
C15_Witness ==
    \E t, u \in Threads :
        /\ thread[t].pc = "RUnlock" /\ thread[t].op = "Unmarshal"
        /\ thread[t].out.err = NoError
        /\ GetType(thread[t].out.object.class) \in Seen
        /\ thread[u].pc = "Lock" /\ thread[u].op = "Add"

----------------------------------------------------------------------------
(* C24: Unmarshal changes no state of the registry: on the four registries
   and for every payload the catalog, the list of known discriminants and the
   tag-name list are after the call what they were before it. *)
C24_UnmarshalChangesNothing ==
    [][ret'.op = "Unmarshal" =>
          /\ registry' = registry
          /\ types' = types
          /\ Typetags' = Typetags]_vars

(* C25: in tag-mode, Unmarshal of a well-formed payload returns
   ArgumentMissing exactly when no configured tag name is in the payload or
   the last one that is, in configured order, carries the empty string,
   whatever the earlier ones carry; the error names the first configured tag
   name. *)
C25_MissingIffCandidateEmpty ==
    (IsUnmarshal /\ kind \in TagKinds /\ WellFormed) =>
        /\ Is(ret.err, "ArgumentMissing") <=>
              \/ PresentTags = {}
              \/ Carries(Guts[LastPresentTag], EmptyString)
        /\ Is(ret.err, "ArgumentMissing") =>
              /\ ret.err = Umbrella(ArgumentMissing(ConfiguredTags[1]))
              /\ ret.object = Null

(* C25 happens: "__type" then "type" are configured, "__type" carries a
   registered discriminant, "type" carries the empty string, and the error
   names "__type" *)
C25_Witness ==
    /\ IsUnmarshal /\ kind \in TagKinds /\ WellFormed
    /\ Typetags = <<TagUnderType, TagType>>
    /\ PresentTags = {1, 2}
    /\ Guts[TagUnderType].s \in Registered
    /\ Carries(Guts[TagType], EmptyString)
    /\ ret.err = Umbrella(ArgumentMissing(TagUnderType))

----------------------------------------------------------------------------
(* C21: while an Unmarshal or a Size is inside its critical section the
   registry holds all the items of every Add that has returned and no item of
   an Add in flight, the keys of the catalog are the elements of the list of
   known discriminants, and Size returns the count of that state. *)
C21_NoPartialAdd ==
    \A t \in Threads :
        ReaderInside(t) =>
            /\ added = returned
            /\ types.s = [i \in 1..Len(returned) |-> GetType(returned[i])]
            /\ DOMAIN registry.m = Elements(types.s)
            /\ (thread[t].pc = "RUnlock" /\ thread[t].op = "Size") =>
                  thread[t].out.n = Cardinality(Seen)

(* C21 happens: a Size has read the registry after Add(Something2{},
   Something1{}) and counts both items *)
C21_Witness ==
    \E t \in Threads :
        /\ thread[t].pc = "RUnlock" /\ thread[t].op = "Size"
        /\ returned = <<"Something2", "Something1">>
        /\ thread[t].out.n = 2

----------------------------------------------------------------------------
(* Every call has returned *)
AllReturned == \A t \in Threads : thread[t].pc = "idle"

(* How many entries of the list s are x *)
Count(s, x) == Cardinality({ i \in DOMAIN s : s[i] = x })

(* C22: once the concurrent calls have all returned, and one of them has
   registered an item or added a tag, the catalog holds the discriminant of
   every item that was registered, the list of known discriminants holds one entry for each
   registered item, and the tag-name list holds, after the tags given at
   construction, one entry for each added tag. *)
C22_NoLostRegistration ==
    (AllReturned /\ (returned # << >> \/ configured # << >>)) =>
        /\ added = returned
        /\ DOMAIN registry.m = Seen
        /\ Len(types.s) = Len(returned)
        /\ \A d \in Seen :
              Count(types.s, d) = Count([i \in 1..Len(returned) |->
                                            GetType(returned[i])], d)
        /\ Len(Typetags) = Len(configured)
        /\ \A tag \in TagNames : Count(Typetags, tag) = Count(configured, tag)

(* What of C22 does not depend on the tag-name list: nothing registered is
   lost or duplicated in the catalog and in the list of known discriminants *)
RegistrationsKept ==
    AllReturned =>
        /\ added = returned
        /\ DOMAIN registry.m = Seen
        /\ Len(types.s) = Len(returned)
        /\ Len(Typetags) \in {Len(configured), Len(configured) + 1}

----------------------------------------------------------------------------
(* Goroutine t holds the lock, or waits for it *)
HoldsOrWaits(t) ==
    \/ lock.writer = t
    \/ t \in lock.readers
    \/ t \in lock.pending

(* C23: under fair scheduling every call on a thread-safe registry returns
   (a goroutine is again and again outside a call), and has released the lock
   it took whatever it returns; the lock is taken
   once in a call (Append only through Add), and when all the calls have
   returned the lock is free. *)
C23_CallsReturnLockFree ==
    /\ \A t \in Threads : []<>(thread[t].pc = "idle" /\ ~HoldsOrWaits(t))
    /\ [](\A t \in Threads : thread[t].pc = "idle" => ~HoldsOrWaits(t))
    /\ [](\A t \in Threads : thread[t].pc = "Lock" => lock.writer # t)
    /\ [](AllReturned => lock = FreeLock)

(* C23 happens: an Unmarshal is about to return an error while it holds the
   read lock, and an Add waits for the lock *)
C23_Witness ==
    \E t, u \in Threads :
        /\ thread[t].pc = "RUnlock" /\ thread[t].op = "Unmarshal"
        /\ thread[t].out.err # NoError
        /\ t \in lock.readers
        /\ thread[u].pc = "Lock" /\ thread[u].op = "Add"

====
